---- MODULE Spec2Model ----
(***************************************************************************)
(* Model of the TIG 20 RF generator driver (tig20.py): the 5-octet frame   *)
(* codec, the serial session (open/close), the command transaction         *)
(* (one write, one read), the typed accessors, emergency_off and the       *)
(* context manager (__enter__/__exit__).                                   *)
(*                                                                         *)
(* The serial channel is the environment: a write either completes or      *)
(* times out, the device answers a written frame with a frame of its own   *)
(* choice, complete or cut short (or not at all), and the octets that      *)
(* arrive do so before the read's timeout.                                 *)
(***************************************************************************)
EXTENDS Integers, Sequences, FiniteSets, TLC

\* ------------------------------------------------------------------------
\* Command codes (tig20.py, "Command Codes")
CMD_SETPOINT_WRITE == 67
CMD_SETPOINT_READ == 195
CMD_LIMIT_UDC_WRITE == 68
CMD_LIMIT_UDC_READ == 196
CMD_LIMIT_IDC_WRITE == 69
CMD_LIMIT_IDC_READ == 197
CMD_LIMIT_PDC_WRITE == 70
CMD_LIMIT_PDC_READ == 198
CMD_MODE_WRITE == 77
CMD_MODE_READ == 205
CMD_OPERATION_WRITE == 79
CMD_OPERATION_READ == 207
CMD_RESET_ERROR == 81
CMD_GET_STATUS == 225

\* ------------------------------------------------------------------------
\* Bounds of the model
MaxChannels == 2      \* serial channels that can be open at the same time

\* Inputs the callers and the environment are drawn from
Addresses == {0, 1}
PermilleArgs == {-1, 0, 1000, 1001}
ModeArgs == {0, 1, 2, 3}
WriteOutcomes == {"ok", "timeout"}
OpenOutcomes == {"ok", "fail"}
FlipBits == 0..7

\* ------------------------------------------------------------------------
\* Python values: None, exceptions and return values
None == 0

Exc(type, msg) == [type |-> type, msg |-> msg]
NoExc == Exc("None", "")

\* class TIG20Error(Exception); class TIG20CommunicationError(TIG20Error)
IsTIG20Error(e) == e.type \in {"TIG20Error", "TIG20CommunicationError"}
IsTIG20CommunicationError(e) == e.type = "TIG20CommunicationError"
IsSerialTimeoutException(e) == e.type = "SerialTimeoutException"

NotOpenError == Exc("TIG20Error", "Serial port not open")
WriteTimeoutError == Exc("TIG20CommunicationError", "Write timeout")
ReadTimeoutError == Exc("TIG20CommunicationError", "Timeout waiting for response")
ChecksumMismatchError == Exc("TIG20CommunicationError", "Checksum mismatch")
OpenFailedError == Exc("TIG20Error", "Could not open port")

PyNone == [t |-> "None", v |-> 0]
PyInt(n) == [t |-> "int", v |-> n]
PyBool(b) == [t |-> "bool", v |-> b]
PyDict(r) == [t |-> "dict", v |-> r]

\* the outcome of a call: the driver's state after it, the exception it
\* raised (NoExc when it returned) and the value it returned
Result(d, exc, val) == [d |-> d, exc |-> exc, val |-> val]

\* one call on the serial channel, as the channel saw it
Event(ev, h, bytes, res) == [ev |-> ev, h |-> h, bytes |-> bytes, res |-> res]

Min(a, b) == IF a < b THEN a ELSE b
Take(s, n) == SubSeq(s, 1, Min(n, Len(s)))
Drop(s, n) == SubSeq(s, Min(n, Len(s)) + 1, Len(s))

\* ------------------------------------------------------------------------
\* The device at the other end of the line
Bit(x, b) == (x \div (2 ^ b)) % 2
FlipBit(x, b) == IF Bit(x, b) = 1 THEN x - 2 ^ b ELSE x + 2 ^ b

RECURSIVE XorBits(_, _, _)
XorBits(a, b, i) ==
    IF i > 7 THEN 0
    ELSE (2 ^ i) * ((Bit(a, i) + Bit(b, i)) % 2) + XorBits(a, b, i + 1)
Xor8(a, b) == XorBits(a, b, 0)

SumFrame(a, c, data) ==
    LET h == (data \div 256) % 256
        l == data % 256
    IN  <<a, c, h, l, (a + c + h + l) % 256>>
XorFrame(a, c, data) ==
    LET h == (data \div 256) % 256
        l == data % 256
    IN  <<a, c, h, l, Xor8(Xor8(a, c), Xor8(h, l))>>

RespData == {0, 1, 2}
ShortLens == 1..4
Answers ==
    {[kind |-> "none", data |-> 0, bit |-> 0],
     [kind |-> "echo", data |-> 0, bit |-> 0],
     [kind |-> "xor", data |-> 0, bit |-> 0]}
    \cup {[kind |-> "sum", data |-> x, bit |-> 0] : x \in RespData}
    \cup {[kind |-> "flip", data |-> 0, bit |-> b] : b \in FlipBits}
    \cup {[kind |-> "short", data |-> 0, bit |-> n] : n \in ShortLens}

\* what the device puts on the line in answer to a frame it received
Reply(frame, ans) ==
    LET reqdata == frame[3] * 256 + frame[4]
        echo == SumFrame(frame[1], frame[2], reqdata)
    IN  CASE ans.kind = "none" -> <<>>
          [] ans.kind = "echo" -> echo
          [] ans.kind = "sum" -> SumFrame(frame[1], frame[2], ans.data)
          [] ans.kind = "xor" -> XorFrame(frame[1], frame[2], reqdata)
          [] ans.kind = "flip" -> [echo EXCEPT ![5] = FlipBit(echo[5], ans.bit)]
          [] ans.kind = "short" -> Take(echo, ans.bit)
          [] ans.kind = "loop" -> frame
          [] ans.kind = "xordata" -> XorFrame(frame[1], frame[2], ans.data)

Env(o, w, a, k) == [open |-> o, wout |-> w, ans |-> a, k |-> k]

\* ------------------------------------------------------------------------
\* The driver.  d is the driver object with its channel:
\*   d.address  self.address
\*   d.ser      self.ser: None or the handle of a serial channel
\*   d.is_open  the handles of the serial channels that are open
\*   d.rx       octets received and not read yet (input buffer of d.ser)
\*   d.fly      octets the device has sent and that have not arrived yet
\*   d.io       the calls made on serial channels during the current call
\*   d.log      the messages logged during the current call that tell which
\*              branch of the cleanup ran

\* TIG20.__init__
TIG20(address) ==
    [address |-> address, ser |-> None, is_open |-> {}, rx |-> <<>>,
     fly |-> <<>>, io |-> <<>>, log |-> <<>>]

FreeHandles(d) == (1..MaxChannels) \ d.is_open

\* open without the test that the session is closed
open_always(d, e) ==
    IF e.open = "ok"
    THEN LET h == CHOOSE x \in FreeHandles(d) : \A y \in FreeHandles(d) : x <= y
         IN  Result([d EXCEPT !.ser = h, !.is_open = @ \cup {h},
                              !.rx = <<>>, !.fly = <<>>,
                              !.io = Append(@, Event("open", h, <<>>, "ok"))],
                    NoExc, PyNone)
    ELSE Result(d, OpenFailedError, PyNone)

\* open that keeps a handle of the channel it failed to acquire
open_keeps_handle(d, e) ==
    IF d.ser = None
    THEN LET h == CHOOSE x \in FreeHandles(d) : \A y \in FreeHandles(d) : x <= y
         IN  IF e.open = "ok"
             THEN Result([d EXCEPT !.ser = h, !.is_open = @ \cup {h},
                                   !.rx = <<>>, !.fly = <<>>,
                                   !.io = Append(@, Event("open", h, <<>>, "ok"))],
                         NoExc, PyNone)
             ELSE Result([d EXCEPT !.ser = h], OpenFailedError, PyNone)
    ELSE Result(d, NoExc, PyNone)

\* open that acquires the same channel whatever the port
open_same_port(d, e) ==
    IF d.ser = None
    THEN IF e.open = "ok"
         THEN Result([d EXCEPT !.ser = 1, !.is_open = @ \cup {1},
                               !.rx = <<>>, !.fly = <<>>,
                               !.io = Append(@, Event("open", 1, <<>>, "ok"))],
                     NoExc, PyNone)
         ELSE Result(d, OpenFailedError, PyNone)
    ELSE Result(d, NoExc, PyNone)

\* TIG20.open
open(d, e) ==
    IF d.ser = None
    THEN IF e.open = "ok"
         THEN LET h == CHOOSE x \in FreeHandles(d) : \A y \in FreeHandles(d) : x <= y
              IN  Result([d EXCEPT !.ser = h, !.is_open = @ \cup {h},
                                   !.rx = <<>>, !.fly = <<>>,
                                   !.io = Append(@, Event("open", h, <<>>, "ok"))],
                         NoExc, PyNone)
         ELSE Result(d, OpenFailedError, PyNone)
    ELSE Result(d, NoExc, PyNone)

\* close that forgets the handle without closing the channel
close_leaks(d) ==
    IF d.ser # None /\ d.ser \in d.is_open
    THEN Result([d EXCEPT !.ser = None, !.rx = <<>>, !.fly = <<>>], NoExc, PyNone)
    ELSE Result(d, NoExc, PyNone)

\* close that raises on a session that is not open
close_strict(d) ==
    IF d.ser # None /\ d.ser \in d.is_open
    THEN Result([d EXCEPT !.ser = None, !.is_open = @ \ {d.ser},
                          !.rx = <<>>, !.fly = <<>>,
                          !.io = Append(@, Event("close", d.ser, <<>>, "ok"))],
                NoExc, PyNone)
    ELSE Result(d, NotOpenError, PyNone)

\* close that closes the channel and keeps self.ser
close_keeps_handle(d) ==
    IF d.ser # None /\ d.ser \in d.is_open
    THEN Result([d EXCEPT !.is_open = @ \ {d.ser},
                          !.rx = <<>>, !.fly = <<>>,
                          !.io = Append(@, Event("close", d.ser, <<>>, "ok"))],
                NoExc, PyNone)
    ELSE Result(d, NoExc, PyNone)

\* TIG20.close
close(d) ==
    IF d.ser # None /\ d.ser \in d.is_open
    THEN Result([d EXCEPT !.ser = None, !.is_open = @ \ {d.ser},
                          !.rx = <<>>, !.fly = <<>>,
                          !.io = Append(@, Event("close", d.ser, <<>>, "ok"))],
                NoExc, PyNone)
    ELSE Result(d, NoExc, PyNone)

\* _build_frame with the XOR checksum of the other protocol revision
build_frame_xor(d, cmd, data) ==
    LET data_h == (data \div 256) % 256
        data_l == data % 256
    IN  IF d.address \in 0..255 /\ cmd \in 0..255
        THEN Result(d, NoExc, <<d.address, cmd, data_h, data_l,
                                Xor8(Xor8(d.address, cmd), Xor8(data_h, data_l))>>)
        ELSE Result(d, Exc("ValueError", "byte must be in range(0, 256)"), <<>>)

\* TIG20._build_frame; bytearray() raises ValueError for an item outside 0..255
build_frame(d, cmd, data) ==
    LET data_h == (data \div 256) % 256
        data_l == data % 256
        checksum == (d.address + cmd + data_h + data_l) % 256
    IN  IF d.address \in 0..255 /\ cmd \in 0..255
        THEN Result(d, NoExc, <<d.address, cmd, data_h, data_l, checksum>>)
        ELSE Result(d, Exc("ValueError", "byte must be in range(0, 256)"), <<>>)

\* _send_frame without the check that the port is open
send_frame_unchecked(d, frame, e) ==
    IF e.wout = "timeout"
    THEN Result([d EXCEPT !.io = Append(@, Event("write", d.ser, frame, "timeout"))],
                WriteTimeoutError, PyNone)
    ELSE Result([d EXCEPT !.io = Append(@, Event("write", d.ser, frame, "ok")),
                          !.fly = @ \o Reply(frame, e.ans)],
                NoExc, PyNone)

\* TIG20._send_frame; the device answers a frame that was transmitted
send_frame(d, frame, e) ==
    IF d.ser = None \/ d.ser \notin d.is_open
    THEN Result(d, NotOpenError, PyNone)
    ELSE IF e.wout = "timeout"
    THEN Result([d EXCEPT !.io = Append(@, Event("write", d.ser, frame, "timeout"))],
                WriteTimeoutError, PyNone)
    ELSE LET answer == Reply(frame, e.ans)
         IN  Result([d EXCEPT !.io = Append(@, Event("write", d.ser, frame, "ok")),
                              !.fly = @ \o answer],
                    NoExc, PyNone)

\* _read_frame that verifies the XOR checksum of the other protocol revision
read_frame_xor(d, e) ==
    IF d.ser = None \/ d.ser \notin d.is_open
    THEN Result(d, NotOpenError, PyNone)
    ELSE LET arrived == d.rx \o Take(d.fly, e.k)
             response == Take(arrived, 5)
             d1 == [d EXCEPT !.rx = Drop(arrived, 5), !.fly = Drop(@, e.k),
                             !.io = Append(@, Event("read", d.ser, response, "ok"))]
         IN  IF Len(response) # 5
             THEN Result(d1, ReadTimeoutError, PyNone)
             ELSE LET data == response[3] * 256 + response[4]
                      chk_calc == Xor8(Xor8(response[1], response[2]),
                                       Xor8(response[3], response[4]))
                  IN  IF response[5] # chk_calc
                      THEN Result(d1, ChecksumMismatchError, PyNone)
                      ELSE Result(d1, NoExc,
                                  PyDict([address |-> response[1], command |-> response[2],
                                          data |-> data, checksum_ok |-> TRUE]))

\* _read_frame that fills an incomplete response up with zero octets
read_frame_padded(d, e) ==
    IF d.ser = None \/ d.ser \notin d.is_open
    THEN Result(d, NotOpenError, PyNone)
    ELSE LET arrived == d.rx \o Take(d.fly, e.k)
             response == Take(arrived, 5)
             padded == response \o [i \in 1..(5 - Len(response)) |-> 0]
             d1 == [d EXCEPT !.rx = Drop(arrived, 5), !.fly = Drop(@, e.k),
                             !.io = Append(@, Event("read", d.ser, response, "ok"))]
             data == padded[3] * 256 + padded[4]
             chk_calc == (padded[1] + padded[2] + padded[3] + padded[4]) % 256
         IN  IF padded[5] # chk_calc
             THEN Result(d1, ChecksumMismatchError, PyNone)
             ELSE Result(d1, NoExc,
                         PyDict([address |-> padded[1], command |-> padded[2],
                                 data |-> data, checksum_ok |-> TRUE]))

\* TIG20._read_frame; ser.read(5) returns the first 5 octets received, or
\* the fewer that arrived before the timeout
read_frame(d, e) ==
    IF d.ser = None \/ d.ser \notin d.is_open
    THEN Result(d, NotOpenError, PyNone)
    ELSE LET arrived == d.rx \o Take(d.fly, e.k)
             response == Take(arrived, 5)
             d1 == [d EXCEPT !.rx = Drop(arrived, 5), !.fly = Drop(@, e.k),
                             !.io = Append(@, Event("read", d.ser, response, "ok"))]
         IN  IF Len(response) # 5
             THEN Result(d1, ReadTimeoutError, PyNone)
             ELSE LET addr == response[1]
                      cmd == response[2]
                      data_h == response[3]
                      data_l == response[4]
                      chk_rx == response[5]
                      data == data_h * 256 + data_l
                      chk_calc == (addr + cmd + data_h + data_l) % 256
                      checksum_ok == (chk_rx = chk_calc)
                  IN  IF ~checksum_ok
                      THEN Result(d1, ChecksumMismatchError, PyNone)
                      ELSE Result(d1, NoExc,
                                  PyDict([address |-> addr, command |-> cmd,
                                          data |-> data, checksum_ok |-> checksum_ok]))

\* _send_command that sends the frame again after a checksum mismatch
send_command_retry(d, cmd, data, e) ==
    LET b == build_frame(d, cmd, data)
    IN  IF b.exc # NoExc THEN Result(d, b.exc, PyNone)
        ELSE LET s == send_frame(d, b.val, e)
                 r == read_frame(s.d, e)
             IN  IF s.exc # NoExc THEN s
                 ELSE IF r.exc # ChecksumMismatchError THEN r
                 ELSE LET s2 == send_frame(r.d, b.val, e)
                      IN  IF s2.exc # NoExc THEN s2 ELSE read_frame(s2.d, e)

\* _send_command that closes the session when the transaction fails
send_command_closes_on_error(d, cmd, data, e) ==
    LET b == build_frame(d, cmd, data)
    IN  IF b.exc # NoExc THEN Result(d, b.exc, PyNone)
        ELSE LET s == send_frame(d, b.val, e)
                 r == IF s.exc # NoExc THEN s ELSE read_frame(s.d, e)
             IN  IF r.exc # NoExc THEN Result(close(r.d).d, r.exc, PyNone) ELSE r

\* TIG20._send_command
send_command(d, cmd, data, e) ==
    LET b == build_frame(d, cmd, data)
    IN  IF b.exc # NoExc THEN Result(d, b.exc, PyNone)
        ELSE LET s == send_frame(d, b.val, e)
             IN  IF s.exc # NoExc THEN s ELSE read_frame(s.d, e)

\* a method that sends a command and returns None
Discard(r) == IF r.exc # NoExc THEN r ELSE Result(r.d, NoExc, PyNone)
\* a method that sends a command and returns resp['data']
DataOf(r) == IF r.exc # NoExc THEN r ELSE Result(r.d, NoExc, PyInt(r.val.v.data))

\* write_setpoint with the upper limit excluded
write_setpoint_below_1000(d, permille, e) ==
    IF ~(0 <= permille /\ permille < 1000)
    THEN Result(d, Exc("ValueError", "Setpoint must be between 0 and 1000"), PyNone)
    ELSE Discard(send_command(d, CMD_SETPOINT_WRITE, permille, e))

\* TIG20.write_setpoint
write_setpoint(d, permille, e) ==
    IF ~(0 <= permille /\ permille <= 1000)
    THEN Result(d, Exc("ValueError", "Setpoint must be between 0 and 1000"), PyNone)
    ELSE Discard(send_command(d, CMD_SETPOINT_WRITE, permille, e))

\* TIG20.read_setpoint
read_setpoint(d, e) == DataOf(send_command(d, CMD_SETPOINT_READ, 0, e))

\* TIG20.write_limit_voltage
write_limit_voltage(d, permille, e) ==
    IF ~(0 <= permille /\ permille <= 1000)
    THEN Result(d, Exc("ValueError", "Limit must be between 0 and 1000"), PyNone)
    ELSE Discard(send_command(d, CMD_LIMIT_UDC_WRITE, permille, e))

\* TIG20.read_limit_voltage
read_limit_voltage(d, e) == DataOf(send_command(d, CMD_LIMIT_UDC_READ, 0, e))

\* TIG20.write_limit_current
write_limit_current(d, permille, e) ==
    IF ~(0 <= permille /\ permille <= 1000)
    THEN Result(d, Exc("ValueError", "Limit must be between 0 and 1000"), PyNone)
    ELSE Discard(send_command(d, CMD_LIMIT_IDC_WRITE, permille, e))

\* TIG20.read_limit_current
read_limit_current(d, e) == DataOf(send_command(d, CMD_LIMIT_IDC_READ, 0, e))

\* TIG20.write_limit_power
write_limit_power(d, permille, e) ==
    IF ~(0 <= permille /\ permille <= 1000)
    THEN Result(d, Exc("ValueError", "Limit must be between 0 and 1000"), PyNone)
    ELSE Discard(send_command(d, CMD_LIMIT_PDC_WRITE, permille, e))

\* TIG20.read_limit_power
read_limit_power(d, e) == DataOf(send_command(d, CMD_LIMIT_PDC_READ, 0, e))

\* set_control_mode that lets the value 3 through
set_control_mode_upto_3(d, mode, e) ==
    IF mode \notin {0, 1, 2, 3}
    THEN Result(d, Exc("ValueError", "Mode must be 0 (UDC), 1 (IDC), or 2 (PDC)"), PyNone)
    ELSE Discard(send_command(d, CMD_MODE_WRITE, mode, e))

\* TIG20.set_control_mode
set_control_mode(d, mode, e) ==
    IF mode \notin {0, 1, 2}
    THEN Result(d, Exc("ValueError", "Mode must be 0 (UDC), 1 (IDC), or 2 (PDC)"), PyNone)
    ELSE Discard(send_command(d, CMD_MODE_WRITE, mode, e))

\* TIG20.get_control_mode_setting
get_control_mode_setting(d, e) == DataOf(send_command(d, CMD_MODE_READ, 0, e))

\* TIG20.reset_error
reset_error(d, e) == Discard(send_command(d, CMD_RESET_ERROR, 1, e))

\* TIG20.rf_on
rf_on(d, e) == Discard(send_command(d, CMD_OPERATION_WRITE, 1, e))

\* TIG20.rf_off: a TIG20Error is logged and raised again
rf_off(d, e) ==
    LET d1 == [d EXCEPT !.log = Append(@, "Turning RF OFF")]
        r == send_command(d1, CMD_OPERATION_WRITE, 0, e)
    IN  IF IsTIG20Error(r.exc)
        THEN Result([r.d EXCEPT !.log = Append(@, "Failed to send RF OFF command")],
                    r.exc, PyNone)
        ELSE Discard(r)

\* TIG20.is_rf_on_set
is_rf_on_set(d, e) ==
    LET r == send_command(d, CMD_OPERATION_READ, 0, e)
    IN  IF r.exc # NoExc THEN r ELSE Result(r.d, NoExc, PyBool(r.val.v.data = 1))

\* the decoding of the status word that has no "unknown" remote control
StatusOf_no_unknown(data) ==
    LET high_byte == (data \div 256) % 256
        low_byte == data % 256
        rc_bits == high_byte % 8
        cm_bits == (low_byte \div 32) % 8
    IN  [setpoint_external |-> Bit(high_byte, 7) = 1,
         circuit_ready |-> Bit(high_byte, 6) = 1,
         freq_limit_active |-> Bit(high_byte, 4) = 1,
         pe_limit_active |-> Bit(high_byte, 3) = 1,
         remote_control |->
             CASE rc_bits = 0 -> "free"
               [] rc_bits = 1 -> "internal"
               [] rc_bits = 2 -> "AD_interface"
               [] rc_bits = 3 -> "RS232"
               [] rc_bits = 4 -> "RS485"
               [] OTHER -> "Profibus",
         control_mode_active |->
             CASE cm_bits = 0 -> "UDC"
               [] cm_bits = 1 -> "IDC"
               [] cm_bits = 2 -> "PDC"
               [] OTHER -> "unknown",
         sampling_off |-> Bit(low_byte, 1) = 1,
         contactor_on |-> Bit(low_byte, 0) = 1,
         raw_status_code |-> data]

\* TIG20.get_status: the decoding of the status word
StatusOf(data) ==
    LET high_byte == (data \div 256) % 256
        low_byte == data % 256
        rc_bits == high_byte % 8
        cm_bits == (low_byte \div 32) % 8
    IN  [setpoint_external |-> Bit(high_byte, 7) = 1,
         circuit_ready |-> Bit(high_byte, 6) = 1,
         freq_limit_active |-> Bit(high_byte, 4) = 1,
         pe_limit_active |-> Bit(high_byte, 3) = 1,
         remote_control |->
             CASE rc_bits = 0 -> "free"
               [] rc_bits = 1 -> "internal"
               [] rc_bits = 2 -> "AD_interface"
               [] rc_bits = 3 -> "RS232"
               [] rc_bits = 4 -> "RS485"
               [] rc_bits = 5 -> "Profibus"
               [] OTHER -> "unknown",
         control_mode_active |->
             CASE cm_bits = 0 -> "UDC"
               [] cm_bits = 1 -> "IDC"
               [] cm_bits = 2 -> "PDC"
               [] OTHER -> "unknown",
         sampling_off |-> Bit(low_byte, 1) = 1,
         contactor_on |-> Bit(low_byte, 0) = 1,
         raw_status_code |-> data]

\* TIG20.get_status
get_status(d, e) ==
    LET r == send_command(d, CMD_GET_STATUS, 0, e)
    IN  IF r.exc # NoExc THEN r ELSE Result(r.d, NoExc, PyDict(StatusOf(r.val.v.data)))

\* emergency_off that closes and then raises what rf_off raised
emergency_off_reraises(d, e) ==
    LET d1 == [d EXCEPT !.log = Append(@, "EMERGENCY OFF TRIGGERED")]
        r == rf_off(d1, e)
        c == close(r.d)
    IN  Result(c.d, r.exc, PyNone)

\* TIG20.emergency_off: whatever rf_off raises is dropped, close always runs
emergency_off(d, e) ==
    LET d1 == [d EXCEPT !.log = Append(@, "EMERGENCY OFF TRIGGERED")]
        r == rf_off(d1, e)
        c == close(r.d)
    IN  Result(c.d, NoExc, PyNone)

\* __enter__ that returns self also when open() raised
enter_swallows(d, e) ==
    LET r == open(d, e)
    IN  Result(r.d, NoExc, PyNone)

\* TIG20.__enter__
enter(d, e) == open(d, e)

\* __exit__ that closes the session before it tries RF OFF
exit_close_first(d, exc_val, e) ==
    LET is_comm_error == IsTIG20CommunicationError(exc_val)
                            \/ IsSerialTimeoutException(exc_val)
        c == close(d)
        r == IF ~is_comm_error THEN rf_off(c.d, e) ELSE c
    IN  Result(r.d, NoExc, PyNone)

\* __exit__ that tries RF OFF whatever ended the block
exit_always_off(d, exc_val, e) ==
    LET r == rf_off(d, e)
        c == close(r.d)
    IN  Result(c.d, NoExc, PyNone)

\* __exit__ without the try/except around rf_off
exit_unguarded(d, exc_val, e) ==
    LET is_comm_error == IsTIG20CommunicationError(exc_val)
                            \/ IsSerialTimeoutException(exc_val)
        r == IF ~is_comm_error THEN rf_off(d, e) ELSE Result(d, NoExc, PyNone)
        c == close(r.d)
    IN  IF r.exc # NoExc THEN Result(r.d, r.exc, PyNone)
        ELSE Result(c.d, NoExc, PyNone)

\* __exit__ that returns True
exit_suppresses(d, exc_val, e) ==
    LET is_comm_error == IsTIG20CommunicationError(exc_val)
                            \/ IsSerialTimeoutException(exc_val)
        r == IF ~is_comm_error THEN rf_off(d, e) ELSE Result(d, NoExc, PyNone)
        c == close(r.d)
    IN  Result(c.d, NoExc, PyBool(TRUE))

\* TIG20.__exit__: returns None, so the with statement raises exc_val again
exit(d, exc_val, e) ==
    LET is_comm_error == IsTIG20CommunicationError(exc_val)
                            \/ IsSerialTimeoutException(exc_val)
        r == IF ~is_comm_error
             THEN rf_off(d, e)
             ELSE Result([d EXCEPT !.log = Append(@,
                             "Skipping RF OFF commands due to communication error.")],
                         NoExc, PyNone)
        c == close(r.d)
    IN  Result(c.d, NoExc, PyNone)

\* what the with statement raises to its caller once __exit__ has run on the
\* exception exc_val of the block: an exception of __exit__ itself, else
\* exc_val unless __exit__ returned a true value
Truthy(val) == val.t = "bool" /\ val.v
WithOutcome(exc_val, r) ==
    IF r.exc # NoExc THEN r.exc
    ELSE IF Truthy(r.val) THEN NoExc
    ELSE exc_val

\* ------------------------------------------------------------------------
\* The program: one driver object, its caller and the serial line
VARIABLES
    address,      \* self.address
    ser,          \* self.ser
    is_open,      \* the serial channels that are open
    rx,           \* input buffer of the open channel
    fly,          \* octets on their way from the device
    io,           \* calls on serial channels made by the last call
    log,          \* cleanup messages logged by the last call
    in_with,      \* the caller is inside a "with tig:" block
    block_clean,  \* no call made inside the block has raised
    held_at_enter, \* self.ser was already set when the block was entered
    op,           \* the last call: method, argument, exc_val, self.ser before
    ret,          \* what the last call raised or returned
    codec,        \* the last call of _build_frame: its arguments and outcome
    dev_mode,     \* the control mode the device has stored
    thr,          \* the threads that call commands on the driver
    peer,         \* a second driver object, constructed for another port
    dev_status,   \* the status word the device reports
    gui           \* the control-panel widget that holds the driver

vars ==
    <<address, ser, is_open, rx, fly, io, log, in_with, block_clean,
      held_at_enter, op, ret, codec, dev_mode, thr, peer, dev_status, gui>>

\* the parts of the state a call on this driver by its one caller leaves alone
Alone == UNCHANGED <<codec, dev_mode, thr, peer, dev_status, gui>>

Threads == {1, 2}
NoCodec == [cmd |-> 0, data |-> 0, exc |-> NoExc, frame |-> <<>>]
NoThreads ==
    [t \in Threads |->
        [pc |-> "idle", cmd |-> 0, frame |-> <<>>, exc |-> NoExc, resp |-> <<>>]]
NoPeer ==
    [address |-> 0, ser |-> None, rx |-> <<>>, fly |-> <<>>, in_with |-> FALSE,
     made |-> FALSE]
\* TIG20Widget.__init__: no driver, not connected, the timer not started
NoGui ==
    [tig20 |-> FALSE, is_connected |-> FALSE, timer |-> FALSE, enabled |-> FALSE,
     rf_label |-> "OFF", calls |-> <<>>]

\* the driver object at the start of a call
Drv ==
    [address |-> address, ser |-> ser, is_open |-> is_open, rx |-> rx,
     fly |-> fly, io |-> <<>>, log |-> <<>>]

Set(d) ==
    /\ address' = d.address
    /\ ser' = d.ser
    /\ is_open' = d.is_open
    /\ rx' = d.rx
    /\ fly' = d.fly
    /\ io' = d.io
    /\ log' = d.log

Op(name, arg, exc_val) ==
    [name |-> name, arg |-> arg, exc |-> exc_val, was_open |-> ser # None]

\* the effect of a method call on the driver and on what its caller sees
Step(name, arg, r) ==
    /\ Set(r.d)
    /\ op' = Op(name, arg, NoExc)
    /\ ret' = [exc |-> r.exc, val |-> r.val]
    /\ in_with' = in_with
    /\ block_clean' = (block_clean /\ r.exc = NoExc)
    /\ held_at_enter' = held_at_enter

\* a method call made by the caller, inside or outside a with block
Call(name, arg, r) ==
    /\ Step(name, arg, r)
    /\ Alone

\* what the environment can do during a call
NoAnswer == [kind |-> "none", data |-> 0, bit |-> 0]
OpenEnvs ==
    IF ser = None THEN {Env(o, "ok", NoAnswer, 0) : o \in OpenOutcomes}
    ELSE {Env("ok", "ok", NoAnswer, 0)}
CmdEnvs ==
    IF ser = None THEN {Env("ok", "ok", NoAnswer, 0)}
    ELSE {Env("ok", "timeout", NoAnswer, 0)}
         \cup {Env("ok", "ok", a, Len(fly) + 5) : a \in Answers}

\* the driver after TIG20(port, address=a) for an address a of the set
Constructed(addresses) ==
    /\ address \in addresses
    /\ ser = None
    /\ is_open = {}
    /\ rx = <<>>
    /\ fly = <<>>
    /\ io = <<>>
    /\ log = <<>>
    /\ in_with = FALSE
    /\ block_clean = TRUE
    /\ held_at_enter = FALSE
    /\ op = [name |-> "__init__", arg |-> 0, exc |-> NoExc, was_open |-> FALSE]
    /\ ret = [exc |-> NoExc, val |-> PyNone]
    /\ codec = NoCodec
    /\ thr = NoThreads
    /\ peer = NoPeer
    /\ gui = NoGui

Init ==
    /\ Constructed(Addresses)
    /\ dev_mode = 0
    /\ dev_status = 0

Open ==
    /\ ser # None \/ FreeHandles(Drv) # {}
    /\ \E e \in OpenEnvs : Call("open", 0, open(Drv, e))

Close == Call("close", 0, close(Drv))

WriteSetpoint ==
    \E v \in PermilleArgs, e \in CmdEnvs :
        Call("write_setpoint", v, write_setpoint(Drv, v, e))
ReadSetpoint ==
    \E e \in CmdEnvs : Call("read_setpoint", 0, read_setpoint(Drv, e))
WriteLimitVoltage ==
    \E v \in PermilleArgs, e \in CmdEnvs :
        Call("write_limit_voltage", v, write_limit_voltage(Drv, v, e))
ReadLimitVoltage ==
    \E e \in CmdEnvs : Call("read_limit_voltage", 0, read_limit_voltage(Drv, e))
WriteLimitCurrent ==
    \E v \in PermilleArgs, e \in CmdEnvs :
        Call("write_limit_current", v, write_limit_current(Drv, v, e))
ReadLimitCurrent ==
    \E e \in CmdEnvs : Call("read_limit_current", 0, read_limit_current(Drv, e))
WriteLimitPower ==
    \E v \in PermilleArgs, e \in CmdEnvs :
        Call("write_limit_power", v, write_limit_power(Drv, v, e))
ReadLimitPower ==
    \E e \in CmdEnvs : Call("read_limit_power", 0, read_limit_power(Drv, e))
SetControlMode ==
    \E m \in ModeArgs, e \in CmdEnvs :
        Call("set_control_mode", m, set_control_mode(Drv, m, e))
GetControlModeSetting ==
    \E e \in CmdEnvs :
        Call("get_control_mode_setting", 0, get_control_mode_setting(Drv, e))
ResetError ==
    \E e \in CmdEnvs : Call("reset_error", 0, reset_error(Drv, e))
RfOn ==
    \E e \in CmdEnvs : Call("rf_on", 0, rf_on(Drv, e))
RfOff ==
    \E e \in CmdEnvs : Call("rf_off", 0, rf_off(Drv, e))
IsRfOnSet ==
    \E e \in CmdEnvs : Call("is_rf_on_set", 0, is_rf_on_set(Drv, e))
GetStatus ==
    \E e \in CmdEnvs : Call("get_status", 0, get_status(Drv, e))
EmergencyOff ==
    \E e \in CmdEnvs : Call("emergency_off", 0, emergency_off(Drv, e))

\* "with tig:" is entered; when open raises, the block does not run
Enter ==
    /\ ~in_with
    /\ ser # None \/ FreeHandles(Drv) # {}
    /\ \E e \in OpenEnvs :
        LET r == enter(Drv, e)
        IN  /\ Set(r.d)
            /\ op' = Op("__enter__", 0, NoExc)
            /\ ret' = [exc |-> r.exc, val |-> r.val]
            /\ in_with' = (r.exc = NoExc)
            /\ block_clean' = TRUE
            /\ held_at_enter' = (ser # None)
            /\ Alone

\* the block ends: normally, with the exception of the call it just made,
\* or with an exception its own code raised
Raised ==
    {Exc("TIG20CommunicationError", "Simulated Failure"),
     Exc("SerialTimeoutException", "Write timeout"),
     Exc("KeyError", "error")}
BlockExits == {NoExc} \cup {ret.exc} \cup Raised

Exit ==
    /\ in_with
    /\ \E exc_val \in BlockExits, e \in CmdEnvs :
        LET r == exit(Drv, exc_val, e)
        IN  /\ Set(r.d)
            /\ op' = Op("__exit__", 0, exc_val)
            /\ ret' = [exc |-> WithOutcome(exc_val, r), val |-> PyNone]
            /\ in_with' = FALSE
            /\ block_clean' = block_clean
            /\ held_at_enter' = held_at_enter
            /\ Alone

Next ==
    \/ Open
    \/ Close
    \/ WriteSetpoint
    \/ ReadSetpoint
    \/ WriteLimitVoltage
    \/ ReadLimitVoltage
    \/ WriteLimitCurrent
    \/ ReadLimitCurrent
    \/ WriteLimitPower
    \/ ReadLimitPower
    \/ SetControlMode
    \/ GetControlModeSetting
    \/ ResetError
    \/ RfOn
    \/ RfOff
    \/ IsRfOnSet
    \/ GetStatus
    \/ EmergencyOff
    \/ Enter
    \/ Exit

Spec == Init /\ [][Next]_vars

\* ------------------------------------------------------------------------
\* Properties

\* the calls of one kind made on serial channels during the last call
Writes == SelectSeq(io, LAMBDA x : x.ev = "write")
Reads == SelectSeq(io, LAMBDA x : x.ev = "read")
Closes == SelectSeq(io, LAMBDA x : x.ev = "close")
Opens == SelectSeq(io, LAMBDA x : x.ev = "open")
\* the times a message was logged during the last call
Logged(msg) == Len(SelectSeq(log, LAMBDA x : x = msg))

Closed == ser = None /\ is_open = {}

\* the RF-disable frame: opcode 0x4F, data 0, additive checksum
RfDisableFrame == <<address, 79, 0, 0, (address + 79) % 256>>

ExitedNormally == op.name = "__exit__" /\ op.exc = NoExc
ExitedOnCommFault == op.name = "__exit__" /\ IsTIG20CommunicationError(op.exc)
ExitedOnOtherError ==
    /\ op.name = "__exit__"
    /\ op.exc # NoExc
    /\ ~IsTIG20CommunicationError(op.exc)
    /\ ~IsSerialTimeoutException(op.exc)

\* C1: when a with block entered on the driver ends normally with the
\* session open and no call in it has raised, __exit__ makes exactly one
\* write, of the RF-disable frame (00 4F 00 00 4F at address 0), and makes it
\* before the one close of the channel, on the channel it then closes.
C1_ExitWritesOneRfOff ==
    (ExitedNormally /\ block_clean /\ op.was_open) =>
        /\ Len(Writes) = 1
        /\ Writes[1].bytes = RfDisableFrame
        /\ address = 0 => Writes[1].bytes = <<0, 79, 0, 0, 79>>
        /\ Len(Closes) = 1
        /\ io[1].ev = "write"
        /\ io[Len(io)].ev = "close"
        /\ io[1].h = io[Len(io)].h

C1_Witness ==
    /\ ExitedNormally /\ block_clean /\ op.was_open
    /\ address = 0
    /\ Len(io) = 3
    /\ io[1] = Event("write", 1, <<0, 79, 0, 0, 79>>, "ok")
    /\ io[2].ev = "read"
    /\ io[3] = Event("close", 1, <<>>, "ok")

\* C2: when the block ends with a communication fault, __exit__ writes no
\* frame (it makes no write and no read at all) and the session is closed
\* afterwards: the only call on the channel is its close.
C2_CommFaultSkipsRfOff ==
    ExitedOnCommFault =>
        /\ Len(Writes) = 0
        /\ Len(Reads) = 0
        /\ Closed
        /\ op.was_open => io = <<Event("close", io[1].h, <<>>, "ok")>>

C2_Witness ==
    /\ ExitedOnCommFault
    /\ op.exc = ChecksumMismatchError
    /\ op.was_open
    /\ Len(io) = 1 /\ io[1].ev = "close"
    /\ Closed

\* C3: when the block ends with an error that is not a communication fault,
\* __exit__ tries RF OFF exactly once (one write at most, exactly one of the
\* RF-disable frame when the session is open), and whatever that attempt
\* raises, the with statement raises the block's own error.
C3_OtherErrorTriesRfOffOnce ==
    ExitedOnOtherError =>
        /\ Logged("Turning RF OFF") = 1
        /\ Len(Writes) <= 1
        /\ op.was_open => (Len(Writes) = 1 /\ Writes[1].bytes = RfDisableFrame)
        /\ ret.exc = op.exc

C3_Witness ==
    /\ ExitedOnOtherError
    /\ op.exc.type = "ValueError"
    /\ Logged("Turning RF OFF") = 1
    /\ Logged("Failed to send RF OFF command") = 1
    /\ ret.exc = op.exc

\* C4: however the block ends and whatever the RF OFF attempt does, the
\* session is Closed when __exit__ has finished: the driver holds no
\* channel and no channel is left open; also when the session was open
\* before the block was entered.
C4_ExitAlwaysCloses ==
    op.name = "__exit__" => Closed

C4_Witness ==
    /\ op.name = "__exit__"
    /\ held_at_enter
    /\ op.was_open
    /\ Logged("Failed to send RF OFF command") = 1
    /\ Closed

\* the command operations of the driver
WriteOps ==
    {"write_setpoint", "write_limit_voltage", "write_limit_current",
     "write_limit_power"}
DataReadOps ==
    {"read_setpoint", "read_limit_voltage", "read_limit_current",
     "read_limit_power", "get_control_mode_setting"}
CommandOps ==
    WriteOps \cup DataReadOps
        \cup {"set_control_mode", "reset_error", "rf_on", "rf_off",
              "is_rf_on_set", "get_status"}

ChecksumGood(b) == b[5] = (b[1] + b[2] + b[3] + b[4]) % 256

\* a communication fault happened on the line during the last call: a write
\* timed out, or a read came back short or with a wrong checksum
CommFaultOnLine ==
    \E i \in 1..Len(io) :
        \/ io[i].ev = "write" /\ io[i].res = "timeout"
        \/ io[i].ev = "read" /\ Len(io[i].bytes) # 5
        \/ io[i].ev = "read" /\ Len(io[i].bytes) = 5 /\ ~ChecksumGood(io[i].bytes)

\* C5 as stated: the with statement raises the communication fault that
\* ended the block, and no call of the driver returns normally when a
\* communication fault happened during it.
C5_Original ==
    /\ ExitedOnCommFault => ret.exc = op.exc
    /\ CommFaultOnLine => ret.exc # NoExc

\* C5 (amended): the with statement raises the very communication fault that
\* ended the block, and a call during which a communication fault happened
\* raises a communication fault and returns nothing, unless the call is
\* __exit__ or emergency_off, whose RF OFF attempt is best effort.
C5_CommFaultReachesCaller ==
    /\ ExitedOnCommFault => ret.exc = op.exc
    /\ (CommFaultOnLine /\ op.name \notin {"__exit__", "emergency_off"}) =>
          (IsTIG20CommunicationError(ret.exc) /\ ret.val = PyNone)

C5_Witness ==
    /\ ExitedOnCommFault
    /\ ~block_clean
    /\ op.exc \in {ChecksumMismatchError, WriteTimeoutError, ReadTimeoutError}
    /\ ret.exc = op.exc
    /\ ret.exc = ChecksumMismatchError

\* a command's argument is in the range the method accepts
ArgInRange ==
    CASE op.name \in WriteOps -> op.arg \in 0..1000
      [] op.name = "set_control_mode" -> op.arg \in {0, 1, 2}
      [] OTHER -> TRUE

\* C6 as stated: every command called on a Closed session fails with the
\* not-open error, makes no call on a channel and leaves the session Closed.
C6_Original ==
    (op.name \in CommandOps /\ ~op.was_open) =>
        (ret.exc = NotOpenError /\ io = <<>> /\ Closed)

\* C6 (amended): every command called on a Closed session with an argument
\* in range fails with the not-open error (with an argument out of range: with
\* the validation error); in both cases the error is not a communication
\* fault, no call is made on any channel and the session stays Closed.
C6_ClosedCommandFails ==
    (op.name \in CommandOps /\ ~op.was_open) =>
        /\ ArgInRange => ret.exc = NotOpenError
        /\ ~ArgInRange => ret.exc.type = "ValueError"
        /\ ~IsTIG20CommunicationError(ret.exc)
        /\ io = <<>>
        /\ Closed

C6_Witness ==
    /\ op.name = "write_limit_power" /\ op.arg = 1000
    /\ ~op.was_open
    /\ ret.exc = NotOpenError
    /\ io = <<>>
    /\ Closed

\* C7: a command called on an open session makes at most one write and at
\* most one read, the write first; a call that succeeds made exactly one
\* write of 5 octets and then one read that returned 5 octets; a read is made
\* only after a write that completed; after a write timeout, a read timeout
\* or a checksum mismatch nothing is written again.
C7_OneWriteThenOneRead ==
    (op.name \in CommandOps /\ op.was_open) =>
        /\ Len(Writes) <= 1
        /\ Len(Reads) <= 1
        /\ Len(io) = Len(Writes) + Len(Reads)
        /\ Len(Reads) = 1 =>
              (Len(io) = 2 /\ io[1].ev = "write" /\ io[1].res = "ok"
                  /\ io[2].ev = "read")
        /\ ret.exc = NoExc =>
              (Len(io) = 2 /\ io[1].ev = "write" /\ Len(io[1].bytes) = 5
                  /\ io[2].ev = "read" /\ Len(io[2].bytes) = 5)
        /\ IsTIG20CommunicationError(ret.exc) => io[Len(io)].ev # "write"
                                                    \/ io[Len(io)].res = "timeout"

C7_Witness ==
    /\ op.name = "read_limit_current" /\ op.was_open
    /\ ret.exc = NoExc
    /\ io = <<Event("write", 1, <<1, 197, 0, 0, 198>>, "ok"),
              Event("read", 1, <<1, 197, 0, 2, 200>>, "ok")>>

C9_ShortReadIsTimeout ==
    (op.name \in CommandOps /\ Len(Reads) = 1 /\ Len(Reads[1].bytes) < 5) =>
        (ret.exc = ReadTimeoutError /\ ret.val = PyNone)

C9_Witness ==
    /\ op.name = "read_setpoint"
    /\ Len(Reads) = 1
    /\ Len(Reads[1].bytes) = 3
    /\ ret.exc = ReadTimeoutError
    /\ ret.val = PyNone

WriteOpcode(name) ==
    CASE name = "write_setpoint" -> 67
      [] name = "write_limit_voltage" -> 68
      [] name = "write_limit_current" -> 69
      [] name = "write_limit_power" -> 70

\* a write method was called with a value outside 0..1000: it raises the
\* validation error, nothing is written and the session is as it was
RejectedStep ==
    /\ ret'.exc.type = "ValueError"
    /\ io' = <<>>
    /\ UNCHANGED <<address, ser, is_open, rx, fly>>

\* a write method was called with a value in 0..1000: no validation error,
\* and exactly one frame was written, with the method's opcode and the value
\* as its data field
OneFrameStep ==
    /\ ret'.exc.type # "ValueError"
    /\ Len(Writes') = 1
    /\ Writes'[1].bytes[2] = WriteOpcode(op'.name)
    /\ Writes'[1].bytes[3] * 256 + Writes'[1].bytes[4] = op'.arg

\* C10 as stated: each of the four write methods rejects a value outside
\* 0..1000 before anything is written, leaving the session unchanged, and
\* for a value in 0..1000 writes exactly one frame carrying it.
C10_Original ==
    [][op'.name \in WriteOps =>
          IF op'.arg \in 0..1000 THEN OneFrameStep ELSE RejectedStep]_vars

\* C10 (amended): each of the four write methods rejects a value outside
\* 0..1000 with the validation error before anything is written, leaving the
\* session unchanged; a value in 0..1000 (0 and 1000 included) passes
\* validation, and on an open session exactly one frame carrying it is
\* written (on a Closed session none is).
C10_RangeValidation ==
    [][op'.name \in WriteOps =>
          IF op'.arg \in 0..1000
          THEN /\ ret'.exc.type # "ValueError"
               /\ ser # None => OneFrameStep
               /\ ser = None => io' = <<>>
          ELSE RejectedStep]_vars

C10_Witness ==
    /\ op.name = "write_limit_voltage" /\ op.arg = 1000
    /\ op.was_open
    /\ Len(Writes) = 1
    /\ Writes[1].bytes = <<address, 68, 3, 232, (address + 68 + 3 + 232) % 256>>

\* C13: open on a session that is already Open raises nothing, acquires no
\* channel (it makes no call on any channel) and leaves the handle, the
\* open channels and the buffers as they were, so that exactly one channel
\* is open however many times open is called in a row.
C13_OpenIdempotent ==
    [][(op'.name = "open" /\ ser # None) =>
          /\ ret'.exc = NoExc
          /\ io' = <<>>
          /\ UNCHANGED <<address, ser, is_open, rx, fly>>
          /\ is_open' = {ser'}]_vars

C13_Witness ==
    /\ op.name = "open" /\ op.was_open
    /\ ret.exc = NoExc
    /\ io = <<>>
    /\ ser = 1 /\ is_open = {1}

\* C14: close on an Open session closes the held channel once, it is the
\* only call made on a channel, and leaves the session Closed; close on a
\* Closed session makes no call, changes nothing and raises nothing.
C14_CloseIdempotent ==
    [][op'.name = "close" =>
          /\ ret'.exc = NoExc
          /\ ser' = None /\ is_open' = {}
          /\ IF ser # None
             THEN io' = <<Event("close", ser, <<>>, "ok")>> /\ is_open = {ser}
             ELSE io' = <<>> /\ UNCHANGED <<address, ser, is_open, rx, fly>>]_vars

C14_Witness ==
    /\ op.name = "close" /\ ~op.was_open
    /\ ret.exc = NoExc
    /\ io = <<>>
    /\ Closed

\* an open that acquires the channel can be made
OpenCanSucceed == ENABLED (Open /\ ser' # None)

CodecAddresses == {-1, 0, 1, 255, 256}
CodecCommands == {0, 1, 79, 255, 256}
CodecData == {-1, 0, 50, 255, 256, 1000, 65535, 65536, 70000}
Loopback == [kind |-> "loop", data |-> 0, bit |-> 0]

CodecInit ==
    /\ Constructed(CodecAddresses)
    /\ dev_mode = 0
    /\ dev_status = 0

Built(c, x) ==
    LET b == build_frame(Drv, c, x)
    IN  [cmd |-> c, data |-> x, exc |-> b.exc, frame |-> b.val]

BuildFrame ==
    \E c \in CodecCommands, x \in CodecData :
        /\ codec' = Built(c, x)
        /\ op' = Op("_build_frame", x, NoExc)
        /\ ret' = [exc |-> Built(c, x).exc, val |-> PyNone]
        /\ io' = <<>>
        /\ log' = <<>>
        /\ UNCHANGED <<address, ser, is_open, rx, fly, in_with, block_clean,
                       held_at_enter, dev_mode, thr, peer, dev_status, gui>>

SendCommand ==
    \E c \in CodecCommands, x \in CodecData :
        /\ Step("_send_command", x,
                send_command(Drv, c, x, Env("ok", "ok", Loopback, 5)))
        /\ codec' = Built(c, x)
        /\ UNCHANGED <<dev_mode, thr, peer, dev_status, gui>>

CodecNext ==
    \/ Open
    \/ Close
    \/ BuildFrame
    \/ SendCommand

CodecSpec == CodecInit /\ [][CodecNext]_vars

\* C12: for an address and a command in 0..255 and data in 0..65535, the
\* frame built is address, command, data high octet, data low octet and the
\* checksum, and reading that frame back succeeds (the checksum is valid) and
\* yields the same address, command and data.
C12_FrameRoundTrip ==
    (op.name = "_send_command" /\ op.was_open /\ address \in 0..255
        /\ codec.cmd \in 0..255 /\ codec.data \in 0..65535) =>
        /\ codec.exc = NoExc
        /\ Len(codec.frame) = 5
        /\ codec.frame[3] = codec.data \div 256
        /\ codec.frame[4] = codec.data % 256
        /\ Len(Reads) = 1 /\ Reads[1].bytes = codec.frame
        /\ ret.exc = NoExc
        /\ ret.val = PyDict([address |-> address, command |-> codec.cmd,
                             data |-> codec.data, checksum_ok |-> TRUE])

C12_Witness ==
    /\ op.name = "_send_command" /\ op.was_open
    /\ address = 255 /\ codec.cmd = 79 /\ codec.data = 65535
    /\ codec.frame = <<255, 79, 255, 255, 76>>
    /\ ret.exc = NoExc
    /\ ret.val.v.data = 65535

\* C18 as stated: _build_frame never fails; for any integer address, command
\* and data it returns 5 octets: the address and the command reduced to 8
\* bits, the data reduced to 16 bits, and their checksum.
C18_EncodeAlwaysSucceeds ==
    op.name = "_build_frame" =>
        LET a == address % 256
            c == codec.cmd % 256
            h == (codec.data \div 256) % 256
            l == codec.data % 256
        IN  /\ codec.exc = NoExc
            /\ codec.frame = <<a, c, h, l, (a + c + h + l) % 256>>

\* ------------------------------------------------------------------------
\* The control mode against a device that stores the mode it is sent: it
\* stores the data of a mode-write frame it receives and answers it with the
\* same frame, and answers a mode-read frame with the stored mode.  A write
\* can time out and an answer can get lost.
DeviceModes == {0, 1, 2}
Echo == [kind |-> "echo", data |-> 0, bit |-> 0]
StoredMode == [kind |-> "sum", data |-> dev_mode, bit |-> 0]

\* the mode the device has stored after the calls made on the channel
DeviceStores(calls) ==
    LET got == SelectSeq(calls, LAMBDA x : x.ev = "write" /\ x.res = "ok"
                                             /\ x.bytes[2] = CMD_MODE_WRITE)
    IN  IF Len(got) = 0 THEN dev_mode
        ELSE got[Len(got)].bytes[3] * 256 + got[Len(got)].bytes[4]

ModeEnvs(answer) ==
    IF ser = None THEN {Env("ok", "ok", NoAnswer, 0)}
    ELSE {Env("ok", "timeout", NoAnswer, 0), Env("ok", "ok", NoAnswer, 5),
          Env("ok", "ok", answer, 5)}

ModeInit ==
    /\ Constructed(Addresses)
    /\ dev_mode \in DeviceModes
    /\ dev_status = 0

ModeWrite ==
    \E m \in ModeArgs, e \in ModeEnvs(Echo) :
        LET r == set_control_mode(Drv, m, e)
        IN  /\ Step("set_control_mode", m, r)
            /\ dev_mode' = DeviceStores(r.d.io)
            /\ UNCHANGED <<codec, thr, peer, dev_status, gui>>

ModeRead ==
    \E e \in ModeEnvs(StoredMode) :
        LET r == get_control_mode_setting(Drv, e)
        IN  /\ Step("get_control_mode_setting", 0, r)
            /\ dev_mode' = DeviceStores(r.d.io)
            /\ UNCHANGED <<codec, thr, peer, dev_status, gui>>

ModeNext ==
    \/ Open
    \/ Close
    \/ ModeWrite
    \/ ModeRead

ModeSpec == ModeInit /\ [][ModeNext]_vars

\* a control-mode write with a value outside {0, 1, 2}: validation error,
\* nothing written
ModeRejectedStep ==
    /\ ret'.exc.type = "ValueError"
    /\ io' = <<>>

\* a control-mode write with 0, 1 or 2: exactly one frame written, with the
\* mode-write opcode 0x4D and the value as its data field
ModeFrameStep ==
    /\ Len(Writes') = 1
    /\ Writes'[1].bytes[2] = 77
    /\ Writes'[1].bytes[3] * 256 + Writes'[1].bytes[4] = op'.arg

\* a control-mode read that follows a control-mode write whose frame was
\* transmitted returns, when it succeeds, the value that was written
ReadBackStep ==
    (/\ op.name = "set_control_mode"
     /\ Len(Writes) = 1 /\ Writes[1].res = "ok"
     /\ op'.name = "get_control_mode_setting"
     /\ ret'.exc = NoExc) => ret'.val = PyInt(op.arg)

\* C11 as stated: a control-mode write with a value outside {0, 1, 2} raises
\* the validation error and writes nothing; with 0, 1 or 2 it sends that
\* value on the mode-write opcode, and the control-mode read that follows
\* returns the value written.
C11_Original ==
    [][/\ op'.name = "set_control_mode" =>
              IF op'.arg \in {0, 1, 2} THEN ModeFrameStep ELSE ModeRejectedStep
       /\ ReadBackStep]_vars

\* C11 (amended): a control-mode write with a value outside {0, 1, 2} raises
\* the validation error and writes nothing; with 0, 1 or 2 it passes
\* validation and, on an open session, sends that value on the mode-write
\* opcode (on a Closed session nothing is sent); against the storing device
\* the control-mode read that follows a transmitted write returns exactly
\* the value written, which is the mode the device has stored.
C11_ModeValidationAndReadBack ==
    [][/\ op'.name = "set_control_mode" =>
              IF op'.arg \in {0, 1, 2}
              THEN /\ ret'.exc.type # "ValueError"
                   /\ ser # None => ModeFrameStep
                   /\ ser = None => io' = <<>>
              ELSE ModeRejectedStep
       /\ ReadBackStep
       /\ (op'.name = "get_control_mode_setting" /\ ret'.exc = NoExc) =>
              ret'.val = PyInt(dev_mode)]_vars

C11_Witness ==
    /\ op.name = "get_control_mode_setting"
    /\ ret.exc = NoExc
    /\ ret.val = PyInt(2)
    /\ dev_mode = 2
    /\ Reads[1].bytes = <<address, 205, 0, 2, (address + 207) % 256>>

\* ------------------------------------------------------------------------
\* C19: RF-enable on an open session at address 0 transmits exactly the
\* frame 00 4F 00 01 4E, whose last octet is the XOR of the first four, and
\* completes without error when the device answers with 00 4F 00 01 4E.
C19_RfOnXorFrame ==
    (/\ op.name = "rf_on"
     /\ op.was_open
     /\ address = 0) =>
        /\ Len(Writes) = 1
        /\ Writes[1].bytes = <<0, 79, 0, 1, 78>>
        /\ Writes[1].bytes[5] = Xor8(Xor8(0, 79), Xor8(0, 1))
        /\ (Len(Reads) = 1 /\ Reads[1].bytes = <<0, 79, 0, 1, 78>>) =>
               ret.exc = NoExc

\* ------------------------------------------------------------------------
\* The actual-value reads.  tig20.py has no such methods; the test suite
\* calls them, and they are modelled after the other read operations of the
\* driver: one _send_command with the opcode and data 0, returning the data
\* field of the response.
CMD_ACTUAL_PDC_READ == 230
CMD_ACTUAL_UDC_READ == 231
CMD_ACTUAL_IDC_READ == 232
CMD_ACTUAL_FREQ_READ == 237

read_actual_power(d, e) == DataOf(send_command(d, CMD_ACTUAL_PDC_READ, 0, e))
read_actual_voltage(d, e) == DataOf(send_command(d, CMD_ACTUAL_UDC_READ, 0, e))
read_actual_current(d, e) == DataOf(send_command(d, CMD_ACTUAL_IDC_READ, 0, e))
read_actual_frequency(d, e) == DataOf(send_command(d, CMD_ACTUAL_FREQ_READ, 0, e))

\* responses of the tests: 500, 100, 0 and 1356, with the XOR checksum of
\* the tests or with the additive one
ActualData == {0, 100, 500, 1356}
ActualAnswers ==
    {NoAnswer} \cup
    {[kind |-> k, data |-> x, bit |-> 0] : k \in {"sum", "xordata"}, x \in ActualData}

ActualEnvs ==
    IF ser = None THEN {Env("ok", "ok", NoAnswer, 0)}
    ELSE {Env("ok", "timeout", NoAnswer, 0)} \cup
         {Env("ok", "ok", a, 5) : a \in ActualAnswers}

ReadActualPower ==
    \E e \in ActualEnvs : Call("read_actual_power", 0, read_actual_power(Drv, e))

ReadActualVoltage ==
    \E e \in ActualEnvs : Call("read_actual_voltage", 0, read_actual_voltage(Drv, e))

ReadActualCurrent ==
    \E e \in ActualEnvs : Call("read_actual_current", 0, read_actual_current(Drv, e))

ReadActualFrequency ==
    \E e \in ActualEnvs : Call("read_actual_frequency", 0, read_actual_frequency(Drv, e))

ActualNext ==
    \/ Open
    \/ Close
    \/ ReadActualPower
    \/ ReadActualVoltage
    \/ ReadActualCurrent
    \/ ReadActualFrequency

ActualSpec == Init /\ [][ActualNext]_vars

ActualOpcode(name) ==
    CASE name = "read_actual_power" -> 230
      [] name = "read_actual_voltage" -> 231
      [] name = "read_actual_current" -> 232
      [] name = "read_actual_frequency" -> 237
      [] OTHER -> 0

\* the response read has the XOR of its first four octets as its checksum
XorValid(bytes) ==
    /\ Len(bytes) = 5
    /\ bytes[5] = Xor8(Xor8(bytes[1], bytes[2]), Xor8(bytes[3], bytes[4]))

\* C20: each actual-value read on an open session sends one frame with its
\* opcode (0xE6 power, 0xE7 voltage, 0xE8 current, 0xED frequency) and data
\* 0, and returns the 16-bit data field of a response whose checksum is the
\* XOR of its first four octets (00 E6 01 F4 13 yields 500).
C20_ActualValueReads ==
    (ActualOpcode(op.name) # 0 /\ op.was_open) =>
        /\ Len(Writes) = 1
        /\ Take(Writes[1].bytes, 4) = <<address, ActualOpcode(op.name), 0, 0>>
        /\ (Len(Reads) = 1 /\ XorValid(Reads[1].bytes)) =>
               /\ ret.exc = NoExc
               /\ ret.val = PyInt(Reads[1].bytes[3] * 256 + Reads[1].bytes[4])

\* ------------------------------------------------------------------------
\* Two threads calling command operations on one driver.  _send_command is
\* three statements with nothing held between them, so a thread can be
\* preempted after any of them.  Thread 1 calls read_setpoint, thread 2
\* is_rf_on_set; the device answers every frame it receives, in order.
ThreadCmd(t) == IF t = 1 THEN CMD_SETPOINT_READ ELSE CMD_OPERATION_READ
ThreadAnswers == {[kind |-> "sum", data |-> x, bit |-> 0] : x \in {0, 1}}

ThreadFrame ==
    UNCHANGED <<in_with, block_clean, held_at_enter, codec, dev_mode, peer,
                dev_status, gui>>

\* frame = self._build_frame(cmd, data)
ThreadBuild(t) ==
    /\ thr[t].pc = "idle"
    /\ LET b == build_frame(Drv, ThreadCmd(t), 0)
       IN  /\ thr' = [thr EXCEPT ![t] = [pc |-> "built", cmd |-> ThreadCmd(t),
                                         frame |-> b.val, exc |-> NoExc, resp |-> <<>>]]
           /\ Set(b.d)
           /\ op' = Op("_build_frame", t, NoExc)
           /\ ret' = [exc |-> b.exc, val |-> PyNone]
    /\ ThreadFrame

\* self._send_frame(frame)
ThreadSend(t) ==
    /\ thr[t].pc = "built"
    /\ \E a \in ThreadAnswers :
        LET r == send_frame(Drv, thr[t].frame, Env("ok", "ok", a, 0))
        IN  /\ thr' = [thr EXCEPT ![t].pc = IF r.exc = NoExc THEN "sent" ELSE "done",
                                  ![t].exc = r.exc]
            /\ Set(r.d)
            /\ op' = Op("_send_frame", t, NoExc)
            /\ ret' = [exc |-> r.exc, val |-> PyNone]
    /\ ThreadFrame

\* return self._read_frame()
ThreadRead(t) ==
    /\ thr[t].pc = "sent"
    /\ LET r == read_frame(Drv, Env("ok", "ok", NoAnswer, Len(fly)))
       IN  /\ thr' = [thr EXCEPT ![t].pc = "done",
                                 ![t].exc = r.exc,
                                 ![t].resp = IF Len(r.d.io) = 0 THEN <<>>
                                             ELSE r.d.io[1].bytes]
           /\ Set(r.d)
           /\ op' = Op("_read_frame", t, NoExc)
           /\ ret' = [exc |-> r.exc, val |-> r.val]
    /\ ThreadFrame

\* the call has returned or raised; the thread can make the next one
ThreadReturn(t) ==
    /\ thr[t].pc = "done"
    /\ thr' = [thr EXCEPT ![t] = NoThreads[t]]
    /\ op' = Op("return", t, NoExc)
    /\ ret' = [exc |-> NoExc, val |-> PyNone]
    /\ io' = <<>>
    /\ log' = <<>>
    /\ UNCHANGED <<address, ser, is_open, rx, fly>>
    /\ ThreadFrame

ThreadNext ==
    \/ Open
    \/ Close
    \/ \E t \in Threads : ThreadBuild(t)
    \/ \E t \in Threads : ThreadSend(t)
    \/ \E t \in Threads : ThreadRead(t)
    \/ \E t \in Threads : ThreadReturn(t)

ThreadSpec == Init /\ [][ThreadNext]_vars

\* C16: access to a session is serialized: no write of one transaction
\* occurs between the write and the read of the other transaction, and each
\* caller that gets a response gets the response to its own request.
C16_Serialized ==
    /\ ~(thr[1].pc = "sent" /\ thr[2].pc = "sent")
    /\ \A t \in Threads :
           (thr[t].pc = "done" /\ thr[t].exc = NoExc) =>
               thr[t].resp[2] = thr[t].cmd

\* ------------------------------------------------------------------------
\* Two driver instances constructed for different ports.  Each has its own
\* address, handle and buffers; the channels they open are different
\* channels of the one system.
PeerDrv ==
    [address |-> peer.address, ser |-> peer.ser, is_open |-> is_open,
     rx |-> peer.rx, fly |-> peer.fly, io |-> <<>>, log |-> <<>>]

PeerAnswers == {NoAnswer, Echo, [kind |-> "flip", data |-> 0, bit |-> 0]}
PeerOpenEnvs ==
    IF peer.ser = None THEN {Env(o, "ok", NoAnswer, 0) : o \in OpenOutcomes}
    ELSE {Env("ok", "ok", NoAnswer, 0)}
PeerCmdEnvs ==
    IF peer.ser = None THEN {Env("ok", "ok", NoAnswer, 0)}
    ELSE {Env("ok", "timeout", NoAnswer, 0)}
         \cup {Env("ok", "ok", a, Len(peer.fly) + 5) : a \in PeerAnswers}

\* the effect of a method call on the second instance
PeerStep(name, exc_val, r, inw) ==
    /\ peer' = [address |-> r.d.address, ser |-> r.d.ser, rx |-> r.d.rx,
                fly |-> r.d.fly, in_with |-> inw, made |-> TRUE]
    /\ is_open' = r.d.is_open
    /\ io' = r.d.io
    /\ log' = r.d.log
    /\ op' = Op(name, 0, exc_val)
    /\ ret' = [exc |-> WithOutcome(exc_val, r), val |-> r.val]
    /\ UNCHANGED <<address, ser, rx, fly, in_with, block_clean, held_at_enter,
                   codec, dev_mode, thr, dev_status, gui>>

\* peer = TIG20(other_port, address=a)
PeerInit ==
    /\ ~peer.made
    /\ \E a \in Addresses :
           PeerStep("peer.__init__", NoExc,
                    Result([PeerDrv EXCEPT !.address = a], NoExc, PyNone), FALSE)

PeerOpen ==
    /\ peer.made
    /\ peer.ser # None \/ FreeHandles(PeerDrv) # {}
    /\ \E e \in PeerOpenEnvs :
           PeerStep("peer.open", NoExc, open(PeerDrv, e), peer.in_with)

PeerClose ==
    /\ peer.made
    /\ PeerStep("peer.close", NoExc, close(PeerDrv), peer.in_with)

PeerRfOn ==
    /\ peer.made
    /\ \E e \in PeerCmdEnvs :
           PeerStep("peer.rf_on", NoExc, rf_on(PeerDrv, e), peer.in_with)

PeerEnter ==
    /\ peer.made
    /\ ~peer.in_with
    /\ peer.ser # None \/ FreeHandles(PeerDrv) # {}
    /\ \E e \in PeerOpenEnvs :
           LET r == enter(PeerDrv, e)
           IN  PeerStep("peer.__enter__", NoExc, r, r.exc = NoExc)

PeerExit ==
    /\ peer.in_with
    /\ \E exc_val \in {NoExc} \cup Raised, e \in PeerCmdEnvs :
           PeerStep("peer.__exit__", exc_val, exit(PeerDrv, exc_val, e), FALSE)

TwoNext ==
    \/ Open
    \/ Close
    \/ RfOn
    \/ ReadSetpoint
    \/ Enter
    \/ Exit
    \/ PeerInit
    \/ PeerOpen
    \/ PeerClose
    \/ PeerRfOn
    \/ PeerEnter
    \/ PeerExit

TwoSpec == Init /\ [][TwoNext]_vars

PeerOps ==
    {"peer.__init__", "peer.open", "peer.close", "peer.rf_on", "peer.__enter__",
     "peer.__exit__"}

\* the instance with handle h and address a is left alone by the step: its
\* address, its handle and the open/closed state of its channel are what
\* they were, and no call of the step was made on its channel
LeftAlone(h, a, h_after, a_after) ==
    /\ a_after = a
    /\ h_after = h
    /\ (h \in is_open) <=> (h \in is_open')
    /\ \A i \in DOMAIN io' : h # None => io'[i].h # h

\* C17: two driver instances constructed for different ports do not
\* interfere: any operation on one instance (open, close, a command, guard
\* entry or exit) leaves the other instance's open/closed state, held
\* channel and device address unchanged and writes nothing to the other
\* instance's channel.
C17_NoInterference ==
    [][/\ op'.name \in PeerOps =>
              /\ LeftAlone(ser, address, ser', address')
              /\ rx' = rx /\ fly' = fly
       /\ op'.name \notin PeerOps =>
              /\ LeftAlone(peer.ser, peer.address, peer'.ser, peer'.address)
              /\ peer'.rx = peer.rx /\ peer'.fly = peer.fly]_vars

C17_Witness ==
    /\ peer.made
    /\ peer.ser # None /\ peer.ser \in is_open
    /\ ser # None /\ ser \in is_open
    /\ ser # peer.ser
    /\ address # peer.address
    /\ op.name = "rf_on"
    /\ Len(Writes) = 1
    /\ Writes[1].h = ser
    /\ Writes[1].bytes[1] = address

\* ------------------------------------------------------------------------
\* The status query against a device that reports any 16-bit status word.
StatusWords == 0..65535
ReportedStatus == [kind |-> "sum", data |-> dev_status, bit |-> 0]

StatusEnvs ==
    IF ser = None THEN {Env("ok", "ok", NoAnswer, 0)}
    ELSE {Env("ok", "ok", ReportedStatus, 5)}

StatusInit ==
    /\ Constructed({0})
    /\ dev_mode = 0
    /\ dev_status \in StatusWords

StatusQuery ==
    \E e \in StatusEnvs : Call("get_status", 0, get_status(Drv, e))

StatusNext ==
    \/ Open
    \/ Close
    \/ StatusQuery

StatusSpec == StatusInit /\ [][StatusNext]_vars

\* bit n of the 16-bit status word w (bit 8 is bit 0 of the high byte)
WordBit(w, n) == (w \div (2 ^ n)) % 2
\* the bit pattern of the three bits of w from bit n up
WordBits3(w, n) == (w \div (2 ^ n)) % 8

\* C21: status decoding is total over the 16-bit status word: for every
\* data value 0..65535 of a checksum-valid status response the query
\* returns a result and never fails; remote-control patterns 6 and 7 and
\* control-mode patterns 3..7 map to "unknown"; each boolean field equals
\* its bit of the documented layout; and 0x0000 decodes to contactor off,
\* sampling on, control mode UDC, remote control "free", circuit not ready.
C21_StatusDecodeTotal ==
    (/\ op.name = "get_status"
     /\ Len(Reads) = 1
     /\ Len(Reads[1].bytes) = 5
     /\ ChecksumGood(Reads[1].bytes)) =>
        /\ ret.exc = NoExc
        /\ ret.val.t = "dict"
        /\ LET st == ret.val.v
               w == Reads[1].bytes[3] * 256 + Reads[1].bytes[4]
           IN  /\ w = dev_status
               /\ st.raw_status_code = w
               /\ WordBits3(w, 8) \in {6, 7} => st.remote_control = "unknown"
               /\ WordBits3(w, 8) \in 0..5 => st.remote_control # "unknown"
               /\ WordBits3(w, 5) \in 3..7 => st.control_mode_active = "unknown"
               /\ WordBits3(w, 5) \in 0..2 => st.control_mode_active # "unknown"
               /\ st.setpoint_external = (WordBit(w, 15) = 1)
               /\ st.circuit_ready = (WordBit(w, 14) = 1)
               /\ st.freq_limit_active = (WordBit(w, 12) = 1)
               /\ st.pe_limit_active = (WordBit(w, 11) = 1)
               /\ st.sampling_off = (WordBit(w, 1) = 1)
               /\ st.contactor_on = (WordBit(w, 0) = 1)
               /\ w = 0 =>
                      /\ ~st.contactor_on
                      /\ ~st.sampling_off
                      /\ st.control_mode_active = "UDC"
                      /\ st.remote_control = "free"
                      /\ ~st.circuit_ready

\* the word 0xFFFF decoded: both enumerations unknown, every flag set
C21_Witness ==
    /\ op.name = "get_status"
    /\ dev_status = 65535
    /\ ret.exc = NoExc
    /\ ret.val.t = "dict"
    /\ ret.val.v.remote_control = "unknown"
    /\ ret.val.v.control_mode_active = "unknown"
    /\ ret.val.v.contactor_on

\* ------------------------------------------------------------------------
\* A line that delivers late.  ser.read(5) returns the octets that arrived
\* before the timeout; the octets of a response that arrive after it stay in
\* the input buffer of the channel, and _send_command does not empty that
\* buffer before the next request.
MaxLate == 1
LateAnswers == {[kind |-> "sum", data |-> x, bit |-> 0] : x \in {1, 2}}

\* of the octets on their way, none, two or all arrive before the timeout
LateEnvs ==
    IF ser = None THEN {Env("ok", "ok", NoAnswer, 0)}
    ELSE {Env("ok", "ok", a, k) : a \in LateAnswers, k \in {0, 2, Len(fly) + 5}}

\* no more than MaxLate responses are outstanding when a request is made
FewLate == Len(rx) + Len(fly) <= 5 * MaxLate

ReadSetpointLate ==
    /\ FewLate
    /\ \E e \in LateEnvs : Call("read_setpoint", 0, read_setpoint(Drv, e))

ReadLimitVoltageLate ==
    /\ FewLate
    /\ \E e \in LateEnvs : Call("read_limit_voltage", 0, read_limit_voltage(Drv, e))

LateNext ==
    \/ Open
    \/ Close
    \/ ReadSetpointLate
    \/ ReadLimitVoltageLate

LateSpec == Init /\ [][LateNext]_vars

ReadOpcode(name) ==
    CASE name = "read_setpoint" -> 195
      [] name = "read_limit_voltage" -> 196
      [] OTHER -> 0

\* C22: a short or absent read is never completed by a later call: octets
\* of the late or partial response to a command that timed out are never
\* used as (part of) the response a subsequent command returns, so every
\* value a command returns comes from the response frame elicited by its
\* own request - the frame that answers the frame it wrote, octet for octet.
C22_OwnResponseOnly ==
    (/\ ReadOpcode(op.name) # 0
     /\ ret.exc = NoExc) =>
        /\ Len(Writes) = 1
        /\ Len(Reads) = 1
        /\ Reads[1].bytes[1] = Writes[1].bytes[1]
        /\ Reads[1].bytes[2] = ReadOpcode(op.name)
        /\ fly = <<>>
        /\ rx = <<>>

\* ------------------------------------------------------------------------
\* C23: when opening the session fails on guard entry, the connection error
\* propagates to the caller, the guarded block is never executed, the
\* guard's exit cleanup does not run, no frame is written to any channel and
\* the session remains Closed.  (An entry ends in one of two ways: without
\* error on an open session, or with the connection error as described.)
C23_FailedEntry ==
    /\ [](op.name = "__enter__" =>
             \/ /\ ret.exc = NoExc
                /\ in_with
                /\ ser # None /\ ser \in is_open
             \/ /\ ret.exc = OpenFailedError
                /\ ~in_with
                /\ io = <<>>
                /\ Closed)
    /\ [][(op.name = "__enter__" /\ ret.exc # NoExc) => op'.name # "__exit__"]_vars
    /\ [][op'.name = "__exit__" => in_with]_vars

C23_Witness ==
    /\ op.name = "__enter__"
    /\ ~op.was_open
    /\ ret.exc = OpenFailedError
    /\ ~in_with
    /\ Closed

\* ------------------------------------------------------------------------
\* C24: in every state reachable by open, close, command calls,
\* emergency_off and guard entries and exits on one driver, the driver holds
\* at most one channel, it holds a channel exactly when that channel is open
\* (the handle is empty if and only if the session is Closed), and every
\* channel it acquired has been released when the session is Closed again,
\* so an open after a close acquires a fresh channel: one that was not open
\* before and that a serial.Serial call of this open has opened.
C24_OneChannelHeldIffOpen ==
    /\ [](/\ Cardinality(is_open) <= 1
          /\ ser = None <=> is_open = {}
          /\ ser # None => is_open = {ser})
    /\ [][(ser = None /\ ser' # None) =>
              /\ ser' \notin is_open
              /\ is_open' = {ser'}
              /\ op'.name \in {"open", "__enter__"}
              /\ Len(Opens') = 1
              /\ Opens'[1].h = ser']_vars

\* closed again after it had been open
C24_Witness ==
    /\ op.name = "close"
    /\ op.was_open
    /\ Len(Closes) = 1
    /\ ser = None
    /\ is_open = {}

\* ------------------------------------------------------------------------
\* the ways a command fails on an open session
CommandFailures == {"ValueError", "TIG20CommunicationError"}

\* C25: a failed command never changes the session state: after a command
\* on an open session ends with a validation error, write timeout, read
\* timeout or checksum mismatch, the session is still Open with the same
\* channel and address, and the driver closes the channel only through
\* close, emergency_off or the guard's exit.
C25_FailedCommandKeepsSession ==
    /\ [][(/\ op'.name \in CommandOps
           /\ ser # None
           /\ ret'.exc # NoExc) =>
              /\ ret'.exc.type \in CommandFailures
              /\ ser' = ser
              /\ is_open' = is_open
              /\ address' = address]_vars
    /\ [][(ser # None /\ (ser' # ser \/ is_open' # is_open)) =>
              op'.name \in {"close", "emergency_off", "__exit__"}]_vars

C25_Witness ==
    /\ op.name = "write_setpoint"
    /\ op.was_open
    /\ ret.exc = ChecksumMismatchError
    /\ ser # None
    /\ is_open = {ser}

\* ------------------------------------------------------------------------
\* C26: emergency_off, called in any session state, attempts the RF-disable
\* command at most once, never propagates an error raised by that attempt
\* (not open, timeout, checksum mismatch), and always leaves the session
\* Closed when it returns.
C26_EmergencyOff ==
    op.name = "emergency_off" =>
        /\ ret.exc = NoExc
        /\ Closed
        /\ Logged("Turning RF OFF") = 1
        /\ Len(Writes) <= 1
        /\ Len(Reads) <= 1
        /\ Len(Writes) = 1 => Writes[1].bytes = RfDisableFrame
        /\ ~op.was_open => io = <<>>
        /\ op.was_open => (Len(Writes) = 1 /\ Len(Closes) = 1 /\ io[Len(io)].ev = "close")

\* the attempt failed with a checksum mismatch and nothing was raised
C26_Witness ==
    /\ op.name = "emergency_off"
    /\ op.was_open
    /\ Len(Reads) = 1
    /\ Len(Reads[1].bytes) = 5
    /\ ~ChecksumGood(Reads[1].bytes)
    /\ Logged("Failed to send RF OFF command") = 1
    /\ ret.exc = NoExc
    /\ Closed

\* ------------------------------------------------------------------------
\* The control-panel widget.  gui holds its attributes: tig20 (it holds a
\* driver), is_connected, timer (the QTimer is running), enabled (the
\* controls are enabled), rf_label (the text of lbl_rf_status) and, for the
\* last handler, the driver methods it called.  The driver it holds is the driver of the other variables.
\* Handlers run to completion, one at a time, on the event loop.
Handled(g, d, exc) == [g |-> g, d |-> d, exc |-> exc]

InitialReads ==
    <<"get_control_mode_setting", "read_setpoint", "read_limit_voltage",
      "read_limit_current", "read_limit_power">>

DriverRead(name, d, e) ==
    CASE name = "get_control_mode_setting" -> get_control_mode_setting(d, e)
      [] name = "read_setpoint" -> read_setpoint(d, e)
      [] name = "read_limit_voltage" -> read_limit_voltage(d, e)
      [] name = "read_limit_current" -> read_limit_current(d, e)
      [] name = "read_limit_power" -> read_limit_power(d, e)

\* the try block of _initial_read from its i-th read on: the first
\* exception ends it and is logged
RECURSIVE initial_read_from(_, _, _, _)
initial_read_from(g, d, es, i) ==
    IF i > Len(InitialReads) THEN Handled(g, d, NoExc)
    ELSE LET r == DriverRead(InitialReads[i], d, es[i])
             g1 == [g EXCEPT !.calls = Append(@, InitialReads[i])]
         IN  IF r.exc # NoExc THEN Handled(g1, r.d, r.exc)
             ELSE initial_read_from(g1, r.d, es, i + 1)

\* TIG20Widget._initial_read
initial_read(g, d, es) ==
    IF ~g.tig20 THEN Handled(g, d, NoExc)
    ELSE initial_read_from(g, d, es, 1)

\* TIG20Widget._connect
connect(g, d, port, e, es) ==
    IF port = "" THEN Handled([g EXCEPT !.calls = <<>>], d, NoExc)
    ELSE LET d0 == [TIG20(0) EXCEPT !.is_open = d.is_open, !.io = d.io, !.log = d.log]
             r == open(d0, e)
             g0 == [g EXCEPT !.tig20 = TRUE, !.calls = <<"open">>]
         IN  IF r.exc # NoExc THEN Handled(g0, r.d, r.exc)
             ELSE initial_read([g0 EXCEPT !.is_connected = TRUE,
                                          !.enabled = TRUE,
                                          !.timer = TRUE], r.d, es)

\* _disconnect that leaves the timer running
disconnect_keeps_timer(g, d) ==
    LET c == IF g.tig20 THEN close(d) ELSE Result(d, NoExc, PyNone)
    IN  Handled([g EXCEPT !.tig20 = FALSE,
                          !.is_connected = FALSE,
                          !.enabled = FALSE,
                          !.rf_label = "OFF",
                          !.calls = IF g.tig20 THEN <<"close">> ELSE <<>>],
                c.d, NoExc)

\* TIG20Widget._disconnect
disconnect(g, d) ==
    LET c == IF g.tig20 THEN close(d) ELSE Result(d, NoExc, PyNone)
    IN  Handled([g EXCEPT !.timer = FALSE,
                          !.tig20 = FALSE,
                          !.is_connected = FALSE,
                          !.enabled = FALSE,
                          !.rf_label = "OFF",
                          !.calls = IF g.tig20 THEN <<"close">> ELSE <<>>],
                c.d, NoExc)

\* TIG20Widget._toggle_connection
toggle_connection(g, d, port, e, es) ==
    IF ~g.is_connected THEN connect(g, d, port, e, es) ELSE disconnect(g, d)

\* TIG20Widget._poll_status
poll_status(g, d, e) ==
    IF ~g.tig20 THEN Handled([g EXCEPT !.calls = <<>>], d, NoExc)
    ELSE LET r == get_status(d, e)
             text == IF r.exc # NoExc THEN g.rf_label
                     ELSE IF r.val.v.contactor_on THEN "ON" ELSE "OFF"
         IN  Handled([g EXCEPT !.calls = <<"get_status">>, !.rf_label = text],
                     r.d, r.exc)

\* TIG20Widget._toggle_rf
toggle_rf(g, d, want_on, e) ==
    IF ~g.tig20 THEN Handled([g EXCEPT !.calls = <<>>], d, NoExc)
    ELSE LET r == IF want_on THEN rf_on(d, e) ELSE rf_off(d, e)
         IN  Handled([g EXCEPT !.calls = <<IF want_on THEN "rf_on" ELSE "rf_off">>],
                     r.d, r.exc)

\* TIG20Widget._change_mode
change_mode(g, d, index, e) ==
    IF ~g.tig20 THEN Handled([g EXCEPT !.calls = <<>>], d, NoExc)
    ELSE LET r == set_control_mode(d, index, e)
         IN  Handled([g EXCEPT !.calls = <<"set_control_mode">>], r.d, r.exc)

\* TIG20Widget._write_setpoint
widget_write_setpoint(g, d, permille, e) ==
    IF ~g.tig20 THEN Handled([g EXCEPT !.calls = <<>>], d, NoExc)
    ELSE LET r == write_setpoint(d, permille, e)
         IN  Handled([g EXCEPT !.calls = <<"write_setpoint">>], r.d, r.exc)

\* what the user and the line can do to the widget
Ports == {"", "COM4"}
WidgetAnswers == {[kind |-> "sum", data |-> x, bit |-> 0] : x \in {0, 1}}
WidgetEnvs ==
    {Env("ok", "timeout", NoAnswer, 0), Env("ok", "ok", NoAnswer, 5),
     Env("ok", "ok", [kind |-> "flip", data |-> 0, bit |-> 0], 5)}
        \cup {Env("ok", "ok", a, 5) : a \in WidgetAnswers}
\* the reads of _initial_read: the first n are answered, the others meet f
InitialReadEnvs ==
    {[i \in 1..Len(InitialReads) |-> IF i <= n THEN Env("ok", "ok", a, 5) ELSE f] :
        n \in 0..Len(InitialReads), a \in WidgetAnswers, f \in WidgetEnvs}

\* the effect of a handler on the widget and on the driver it holds
WidgetStep(name, arg, h) ==
    /\ gui' = h.g
    /\ Set(h.d)
    /\ op' = Op(name, arg, NoExc)
    /\ ret' = [exc |-> h.exc, val |-> PyNone]
    /\ UNCHANGED <<in_with, block_clean, held_at_enter, codec, dev_mode, thr,
                   peer, dev_status>>

\* btn_connect is clicked
ToggleConnection ==
    \E port \in Ports, o \in OpenOutcomes, es \in InitialReadEnvs :
        WidgetStep(IF gui.is_connected THEN "_disconnect" ELSE "_connect",
                   IF port = "" THEN 0 ELSE 1,
                   toggle_connection(gui, Drv, port, Env(o, "ok", NoAnswer, 0), es))

\* the timer's timeout signal is delivered
PollStatus ==
    \E e \in WidgetEnvs : WidgetStep("_poll_status", 0, poll_status(gui, Drv, e))

\* btn_rf is clicked
ToggleRf ==
    \E want_on \in BOOLEAN, e \in WidgetEnvs :
        WidgetStep("_toggle_rf", IF want_on THEN 1 ELSE 0,
                   toggle_rf(gui, Drv, want_on, e))

\* combo_mode changes its index
ChangeMode ==
    \E index \in {0, 2}, e \in WidgetEnvs :
        WidgetStep("_change_mode", index, change_mode(gui, Drv, index, e))

\* btn_set_setpoint is clicked
ClickSetSetpoint ==
    \E permille \in {0, 1000}, e \in WidgetEnvs :
        WidgetStep("_write_setpoint", permille,
                   widget_write_setpoint(gui, Drv, permille, e))

WidgetInit ==
    /\ Constructed({0})
    /\ dev_mode = 0
    /\ dev_status = 0

WidgetNext ==
    \/ ToggleConnection
    \/ PollStatus
    \/ ToggleRf
    \/ ChangeMode
    \/ ClickSetSetpoint

WidgetSpec == WidgetInit /\ [][WidgetNext]_vars

WidgetEvents == {"_poll_status", "_toggle_rf", "_change_mode", "_write_setpoint"}

\* C27: in the control-panel widget, after any sequence of connect,
\* disconnect and failing or succeeding command and poll events, the
\* status-polling timer is running if and only if is_connected is true; a
\* connect attempt whose open fails leaves is_connected false and the timer
\* stopped; and once disconnect has completed, the widget holds no driver and
\* (for as long as it holds none, that is until the next connect) a timer
\* tick or control event issues no command.
C27_TimerIffConnected ==
    /\ [](gui.timer <=> gui.is_connected)
    /\ []((op.name = "_connect" /\ ret.exc = OpenFailedError) =>
              (~gui.is_connected /\ ~gui.timer /\ ser = None))
    /\ [](op.name = "_disconnect" =>
              (~gui.tig20 /\ ~gui.is_connected /\ ~gui.timer /\ Closed))
    /\ [][(~gui.tig20 /\ op'.name \in WidgetEvents) =>
              (gui'.calls = <<>> /\ io' = <<>> /\ ~gui'.tig20)]_vars
    /\ [][(~gui.tig20 /\ gui'.tig20) => op'.name = "_connect"]_vars

\* a connection that was open has been disconnected
C27_Witness ==
    /\ op.name = "_disconnect"
    /\ op.was_open
    /\ Len(Closes) = 1
    /\ ~gui.tig20
    /\ ~gui.timer
    /\ ~gui.is_connected

====
